---- MODULE Spec2Model ----
(***************************************************************************)
(* Model of the acos_config module                                         *)
(* (lib/ansible/modules/network/a10/acos_config.py).                       *)
(*                                                                         *)
(* A configuration line is a sequence of one-character strings, so that    *)
(* str.strip, str.startswith, str.split and '\n'.join are computed, never  *)
(* assumed.  A raw text is a sequence of characters too; NL is the line    *)
(* separator.                                                              *)
(*                                                                         *)
(* Spec      one run of main() against a device (running/startup config).  *)
(* SpecDiff  get_diff applied to bounded inputs.                           *)
(* SpecList  configuration_to_list applied to bounded raw texts.            *)
(***************************************************************************)
EXTENDS Integers, Sequences, FiniteSets, TLC

VARIABLES
    params,               \* module.params and module.check_mode
    running,              \* device: lines of the running configuration
    startup,              \* device: lines of the startup configuration
    pc,                   \* position in main()
    before_config_list,   \* main: line 341
    contents,             \* main: line 359, the text handed to backup()
    commands,             \* main: line 370-376
    running_config_list,  \* main: line 389
    startup_config_list,  \* main: line 391
    difference,           \* main: line 396
    running_config,       \* main: line 428, sha1 of the fresh running text
    startup_config,       \* main: line 430, sha1 of the fresh startup text
    after_config_list,    \* main: line 455
    result,               \* main: the result dictionary
    warnings,             \* module.warn calls, in order
    log,                  \* the calls made to the device session, in order
    fn                    \* SpecDiff, SpecList: arguments and return value

vars == <<params, running, startup, pc, before_config_list, contents, commands,
          running_config_list, startup_config_list, difference, running_config,
          startup_config, after_config_list, result, warnings, log, fn>>

-----------------------------------------------------------------------------
(* Characters and strings *)

NL == "\n"
SP == " "
BANG == "!"

\* the characters str.strip() removes (of those the model's texts contain)
Whitespace == {SP, NL}

Range(s) == {s[i] : i \in 1..Len(s)}

\* str.startswith('!')
StartsWithBang(s) == Len(s) > 0 /\ s[1] = BANG

RECURSIVE LStrip(_)
LStrip(s) ==
    IF s # <<>> /\ Head(s) \in Whitespace THEN LStrip(Tail(s)) ELSE s

RECURSIVE RStrip(_)
RStrip(s) ==
    IF s # <<>> /\ s[Len(s)] \in Whitespace
    THEN RStrip(SubSeq(s, 1, Len(s) - 1)) ELSE s

\* str.strip()
Strip(s) == RStrip(LStrip(s))

\* sep.join(lines)
RECURSIVE Join(_, _)
Join(lines, sep) ==
    IF lines = <<>> THEN <<>>
    ELSE IF Len(lines) = 1 THEN lines[1]
    ELSE lines[1] \o sep \o Join(Tail(lines), sep)

\* text.split('\n'): the empty text yields one empty line
RECURSIVE SplitFrom(_, _)
SplitFrom(text, cur) ==
    IF text = <<>> THEN <<cur>>
    ELSE IF Head(text) = NL THEN <<cur>> \o SplitFrom(Tail(text), <<>>)
    ELSE SplitFrom(Tail(text), Append(cur, Head(text)))

Split(text) == SplitFrom(text, <<>>)

\* [f(x) for x in s]
StripAll(s) == [i \in 1..Len(s) |-> Strip(s[i])]

-----------------------------------------------------------------------------
(* Pure functions of the module *)

\* get_list_from_params: None or the empty list yields the empty list
get_list_from_params(command_lines) == StripAll(command_lines)

\* get_intended_config
get_intended_config(intended_lines) == StripAll(intended_lines)

\* the ignore_list literal of get_diff
ignore_list ==
    << <<>>,
       <<"!">>,
       <<"e","x","i","t","-","m","o","d","u","l","e">>,
       <<"S","h","o","w"," ","d","e","f","a","u","l","t"," ",
         "s","t","a","r","t","u","p","-","c","o","n","f","i","g">>,
       <<"B","u","i","l","d","i","n","g"," ",
         "c","o","n","f","i","g","u","r","a","t","i","o","n",".",".",".">> >>

\* faulty variant: a reported line is put in front of the earlier ones
RECURSIVE DiffLoop_Reversed(_, _, _)
DiffLoop_Reversed(intended_config, candidate_config, diff) ==
    IF intended_config = <<>> THEN diff
    ELSE LET item == Head(intended_config)
             keep == /\ ~StartsWithBang(item)
                     /\ item \notin Range(candidate_config)
                     /\ item \notin Range(ignore_list)
         IN  DiffLoop_Reversed(Tail(intended_config), candidate_config,
                               IF keep THEN <<item>> \o diff ELSE diff)

\* faulty variant: a line is reported whether or not candidate_config has it
RECURSIVE DiffLoop_IgnoresActual(_, _, _)
DiffLoop_IgnoresActual(intended_config, candidate_config, diff) ==
    IF intended_config = <<>> THEN diff
    ELSE LET item == Head(intended_config)
             keep == /\ ~StartsWithBang(item)
                     /\ item \notin Range(ignore_list)
         IN  DiffLoop_IgnoresActual(Tail(intended_config), candidate_config,
                                    IF keep THEN Append(diff, item) ELSE diff)

\* get_diff, lines 263-266: the loop over intended_config
RECURSIVE DiffLoop(_, _, _)
DiffLoop(intended_config, candidate_config, diff) ==
    IF intended_config = <<>> THEN diff
    ELSE LET item == Head(intended_config)
             keep == /\ ~StartsWithBang(item)
                     /\ item \notin Range(candidate_config)
                     /\ item \notin Range(ignore_list)
         IN  DiffLoop(Tail(intended_config), candidate_config,
                      IF keep THEN Append(diff, item) ELSE diff)

\* faulty variant: a caller ignore line excludes every line it is a prefix of
DiffFilter_PrefixMatch(diff, diff_ignore_lines) ==
    SelectSeq(diff, LAMBDA x :
        \A k \in DOMAIN diff_ignore_lines :
            LET ig == diff_ignore_lines[k]
            IN  ~(Len(ig) <= Len(x) /\ SubSeq(x, 1, Len(ig)) = ig))

\* faulty variant: the caller's ignore lines are not applied
DiffFilter_NotApplied(diff, diff_ignore_lines) == diff

\* get_diff, lines 267-268: the filter by the caller's ignore lines
DiffFilter(diff, diff_ignore_lines) ==
    IF diff_ignore_lines # <<>>
    THEN SelectSeq(diff, LAMBDA x : x \notin Range(diff_ignore_lines))
    ELSE diff

get_diff(intended_config, candidate_config, diff_ignore_lines) ==
    DiffFilter(DiffLoop(intended_config, candidate_config, <<>>),
               diff_ignore_lines)

\* configuration_to_list, lines 275-277, over the lines of configuration[0]
RECURSIVE SanitizeLoop(_, _)
SanitizeLoop(config_list, sanitized_config_list) ==
    IF config_list = <<>> THEN sanitized_config_list
    ELSE LET line == Head(config_list)
         IN  SanitizeLoop(Tail(config_list),
                 IF ~StartsWithBang(line)
                 THEN Append(sanitized_config_list, Strip(line))
                 ELSE sanitized_config_list)

configuration_to_list(configuration) ==
    SanitizeLoop(Split(configuration[1]), <<>>)

-----------------------------------------------------------------------------
(* Collaborators that are not part of acos_config.py *)

\* LineNormalizer of the specification: trim, then drop comment lines
NormalizeLines(lines) ==
    SelectSeq(StripAll(lines), LAMBDA l : ~StartsWithBang(l))

RECURSIVE Spaces(_)
Spaces(n) == IF n = 0 THEN <<>> ELSE <<SP>> \o Spaces(n - 1)

\* NetworkConfig(indent).add(lines, parents) followed by dumps(obj, 'raw'):
\* the parent chain, each level indented one step further, then the lines
\* under it, serialised one line per row
NetworkConfigDumpsRaw(indent, lines, parents) ==
    LET norm_parents == NormalizeLines(parents)
        norm_lines   == NormalizeLines(lines)
        depth        == Len(norm_parents)
        rows == [i \in 1..depth |-> Spaces((i - 1) * indent) \o norm_parents[i]]
                \o [i \in 1..Len(norm_lines) |->
                        Spaces(depth * indent) \o norm_lines[i]]
    IN  Join(rows, <<NL>>)

\* NetworkConfig(contents, ignore_lines).sha1: the fingerprint of the
\* normalised lines with the ignored lines removed, concatenated.  The hash is
\* modelled by the text it is taken of.
NetworkConfigSha1(text, ignore_lines) ==
    Join(SelectSeq(NormalizeLines(Split(text)),
                   LAMBDA l : l \notin Range(ignore_lines)), <<>>)

\* "no <command>" removes <command> from the running configuration
IsNoCommand(s) ==
    Len(s) > 3 /\ SubSeq(s, 1, 3) = <<"n", "o", SP>>

\* the device executing one configuration command
DeviceApply(cfg, cmd) ==
    LET s == Strip(cmd)
    IN  IF s = <<>> \/ StartsWithBang(s) THEN cfg
        ELSE IF IsNoCommand(s)
        THEN SelectSeq(cfg, LAMBDA l : l # Strip(SubSeq(s, 4, Len(s))))
        ELSE IF s \in Range(cfg) THEN cfg
        ELSE Append(cfg, s)

RECURSIVE DeviceApplyAll(_, _)
DeviceApplyAll(cfg, cmds) ==
    IF cmds = <<>> THEN cfg
    ELSE DeviceApplyAll(DeviceApply(cfg, Head(cmds)), Tail(cmds))

\* the response to a read-only show command: a list holding one text, which
\* opens with a comment line
Show(cfg) == << Join(<< <<BANG>> >> \o cfg, <<NL>>) >>

\* the names the calls to the device session are logged under
Mutating == {"configure", "command", "exit", "edit_config", "write memory"}

-----------------------------------------------------------------------------
(* Inputs *)

MaxLines == 2

A == <<"a">>
B == <<"b">>
C == <<"c">>
NoA == <<"n", "o", SP, "a">>
P == <<"p">>
ExitModule == ignore_list[3]

\* a removal, an addition with leading whitespace, a comment
LineChoices == {NoA, <<SP, "a">>, <<BANG, "c">>}

SeqsUpTo(S, n) == UNION {[1..k -> S] : k \in 0..n}

\* the local files file_path may name; a readlines() row ends with NL
Files == [f1 |-> << <<"b", NL>>, <<BANG, "c", NL>> >>]

FilePathChoices == {"", "missing", "f1"}

\* parents only feeds get_candidate_config: it is varied with the options that
\* do not reach the candidate left at their defaults; src is read by the
\* argument validation only and is varied in the same way
ParamChoices ==
    [check_mode        : BOOLEAN,
     src               : {""},
     file_path         : FilePathChoices,
     lines             : SeqsUpTo(LineChoices, MaxLines),
     parents           : {<<>>},
     before            : {<<>>, <<B>>},
     after             : {<<>>, <<C>>},
     backup            : BOOLEAN,
     save_when         : {"always", "never", "modified", "changed"},
     diff_against      : {"", "startup"},
     diff_ignore_lines : {<<>>, <<A>>},
     intended_config   : {<<>>, <<A>>, <<ExitModule, B, A>>}]
    \cup
    [check_mode        : BOOLEAN,
     src               : {""},
     file_path         : {""},
     lines             : SeqsUpTo(LineChoices, MaxLines),
     parents           : {<<P>>},
     before            : {<<>>, <<B>>},
     after             : {<<>>, <<C>>},
     backup            : {FALSE},
     save_when         : {"never", "changed"},
     diff_against      : {""},
     diff_ignore_lines : {<<>>},
     intended_config   : {<<>>}]
    \cup
    [check_mode        : {FALSE},
     src               : {"s"},
     file_path         : {"", "f1"},
     lines             : SeqsUpTo(LineChoices, MaxLines),
     parents           : {<<>>, <<P>>},
     before            : {<<>>},
     after             : {<<>>},
     backup            : {FALSE},
     save_when         : {"never"},
     diff_against      : {""},
     diff_ignore_lines : {<<>>},
     intended_config   : {<<>>}]

RunningChoices == {<<>>, <<A>>}
StartupChoices == {<<>>, <<A>>}

NoFn == [called |-> FALSE, intended_config |-> <<>>, candidate_config |-> <<>>,
         diff_ignore_lines |-> <<>>, diff |-> <<>>]

-----------------------------------------------------------------------------
(* One run of main() *)

Init ==
    /\ params \in ParamChoices
    /\ running \in RunningChoices
    /\ startup \in StartupChoices
    /\ pc = "start"
    /\ before_config_list = <<>>
    /\ contents = <<>>
    /\ commands = <<>>
    /\ running_config_list = <<>>
    /\ startup_config_list = <<>>
    /\ difference = <<>>
    /\ running_config = <<>>
    /\ startup_config = <<>>
    /\ after_config_list = <<>>
    /\ result = [changed |-> FALSE, has_commands |-> FALSE, has_backup |-> FALSE,
                 success |-> "", failed_diff_lines |-> <<>>,
                 diff_against_found |-> "", startup_diff |-> <<>>]
    /\ warnings = <<>>
    /\ log = <<>>
    /\ fn = NoFn

\* lines 318-319
mutually_exclusive == {<<"lines", "src">>, <<"parents", "src">>}

\* an option counts as given when it has a value
Given(p, name) == IF name = "src" THEN p.src # "" ELSE p[name] # <<>>

\* AnsibleModule(...), lines 325-328: two options of a mutually_exclusive
\* pair are both given
ArgumentsRejected(p) ==
    \E pair \in mutually_exclusive : Given(p, pair[1]) /\ Given(p, pair[2])

\* lines 325-328: the constructor fails the run (InvalidConfiguration)
RejectArguments ==
    /\ pc = "start"
    /\ ArgumentsRejected(params)
    /\ pc' = "invalid"
    /\ UNCHANGED <<params, running, startup, before_config_list, contents,
                   commands, running_config_list, startup_config_list,
                   difference, running_config, startup_config,
                   after_config_list, result, warnings, log, fn>>

\* faulty variant: the running configuration is not fetched before apply
FetchBefore_NoFetch ==
    /\ pc = "start"
    /\ ~ArgumentsRejected(params)
    /\ before_config_list' = <<>>
    /\ log' = log
    /\ pc' = "apply_file"
    /\ UNCHANGED <<params, running, startup, contents, commands,
                   running_config_list, startup_config_list, difference,
                   running_config, startup_config, after_config_list, result,
                   warnings, fn>>

\* lines 341-342
FetchBefore ==
    /\ pc = "start"
    /\ ~ArgumentsRejected(params)
    /\ before_config_list' = configuration_to_list(Show(running))
    /\ log' = Append(log, "show running-config")
    /\ pc' = "apply_file"
    /\ UNCHANGED <<params, running, startup, contents, commands,
                   running_config_list, startup_config_list, difference,
                   running_config, startup_config, after_config_list, result,
                   warnings, fn>>

\* lines 350-352: the commands of the file that are sent, in order
FileCommands(command_lines) ==
    StripAll(SelectSeq(command_lines, LAMBDA line : ~StartsWithBang(line)))

\* faulty variant: configuration mode is entered before the file is opened
ApplyFileNotFound_ConfigureFirst ==
    /\ pc = "apply_file"
    /\ params.file_path # ""
    /\ params.file_path \notin DOMAIN Files
    /\ log' = Append(log, "configure")
    /\ pc' = "failed"
    /\ UNCHANGED <<params, running, startup, before_config_list, contents,
                   commands, running_config_list, startup_config_list,
                   difference, running_config, startup_config,
                   after_config_list, result, warnings, fn>>

\* lines 344-355, file_path names a file that cannot be opened
ApplyFileNotFound ==
    /\ pc = "apply_file"
    /\ params.file_path # ""
    /\ params.file_path \notin DOMAIN Files
    /\ pc' = "failed"
    /\ UNCHANGED <<params, running, startup, before_config_list, contents,
                   commands, running_config_list, startup_config_list,
                   difference, running_config, startup_config,
                   after_config_list, result, warnings, log, fn>>

\* lines 344-353, file_path names a readable file; the device may leave the
\* commands without effect
ApplyFile ==
    /\ pc = "apply_file"
    /\ params.file_path \in DOMAIN Files
    /\ LET sent == FileCommands(Files[params.file_path])
       IN  /\ log' = log \o <<"configure">>
                         \o [i \in 1..Len(sent) |-> "command"]
                         \o <<"exit">>
           /\ \E accepted \in BOOLEAN :
                running' = IF accepted THEN DeviceApplyAll(running, sent)
                           ELSE running
    /\ pc' = "backup"
    /\ UNCHANGED <<params, startup, before_config_list, contents, commands,
                   running_config_list, startup_config_list, difference,
                   running_config, startup_config, after_config_list, result,
                   warnings, fn>>

\* line 344, no file_path
SkipFile ==
    /\ pc = "apply_file"
    /\ params.file_path = ""
    /\ pc' = "backup"
    /\ UNCHANGED <<params, running, startup, before_config_list, contents,
                   commands, running_config_list, startup_config_list,
                   difference, running_config, startup_config,
                   after_config_list, result, warnings, log, fn>>

\* lines 357-362 (diff_against is never 'running': line 311)
Backup ==
    /\ pc = "backup"
    /\ IF params.backup
       THEN /\ contents' = Show(running)[1]
            /\ result' = [result EXCEPT !.has_backup = TRUE]
            /\ log' = log \o <<"get_config", "backup">>
       ELSE UNCHANGED <<contents, result, log>>
    /\ pc' = "apply_lines"
    /\ UNCHANGED <<params, running, startup, before_config_list, commands,
                   running_config_list, startup_config_list, difference,
                   running_config, startup_config, after_config_list,
                   warnings, fn>>

\* get_candidate_config, lines 208-215
get_candidate_config(p) ==
    IF p.lines # <<>>
    THEN NetworkConfigDumpsRaw(1, p.lines, p.parents)
    ELSE <<>>

\* faulty variant: after is spliced in at the front, as before is
BuildCommands_AfterAtFront(config_diff, before, after) ==
    LET split == Split(config_diff)
        with_before == IF before # <<>> THEN before \o split ELSE split
    IN  IF after # <<>> THEN after \o with_before ELSE with_before

\* lines 370-376: split the candidate, splice before and after around it
BuildCommands(config_diff, before, after) ==
    LET split == Split(config_diff)
        with_before == IF before # <<>> THEN before \o split ELSE split
    IN  IF after # <<>> THEN with_before \o after ELSE with_before

\* lines 364-386; the device may leave the batch without effect
ApplyLines ==
    /\ pc = "apply_lines"
    /\ LET candidate == get_candidate_config(params)
           built == BuildCommands(candidate, params.before, params.after)
       IN  IF params.lines # <<>> /\ candidate # <<>>
           THEN /\ commands' = built
                /\ IF ~params.check_mode /\ built # <<>>
                   THEN /\ log' = Append(log, "edit_config")
                        /\ \E accepted \in BOOLEAN :
                             running' = IF accepted
                                        THEN DeviceApplyAll(running, built)
                                        ELSE running
                        /\ result' = [result EXCEPT !.has_commands = TRUE,
                                                    !.changed = TRUE]
                   ELSE /\ result' = [result EXCEPT !.has_commands = TRUE]
                        /\ UNCHANGED <<log, running>>
           ELSE UNCHANGED <<commands, log, running, result>>
    /\ pc' = "fetch_after"
    /\ UNCHANGED <<params, startup, before_config_list, contents,
                   running_config_list, startup_config_list, difference,
                   running_config, startup_config, after_config_list,
                   warnings, fn>>

\* lines 389-417: the snapshots after apply, the drift diff and its warning,
\* the intended_config check
Reconcile ==
    /\ pc = "fetch_after"
    /\ LET running_list   == configuration_to_list(Show(running))
           startup_list   == configuration_to_list(Show(startup))
           candidate_lines == get_list_from_params(params.lines)
           diff_ignore_lines_list ==
               get_list_from_params(params.diff_ignore_lines)
           drift == get_diff(candidate_lines, running_list,
                             diff_ignore_lines_list)
           found_diff == get_diff(get_intended_config(params.intended_config),
                                  candidate_lines, diff_ignore_lines_list)
       IN  /\ running_config_list' = running_list
           /\ startup_config_list' = startup_list
           /\ difference' = drift
           /\ warnings' = IF Len(drift) # 0
                          THEN Append(warnings,
                                      [kind |-> "drift", lines |-> drift])
                          ELSE warnings
           /\ result' = IF params.intended_config # <<>>
                        THEN IF Len(found_diff) # 0
                             THEN [result EXCEPT
                                      !.success = "False",
                                      !.failed_diff_lines = found_diff]
                             ELSE [result EXCEPT !.success = "True"]
                        ELSE result
    /\ log' = log \o <<"show running-config", "show startup-config">>
    /\ pc' = "save"
    /\ UNCHANGED <<params, running, startup, before_config_list, contents,
                   commands, running_config, startup_config,
                   after_config_list, fn>>

\* faulty variant: 'modified' is decided by the changed flag
SaveDecision_ModifiedByChanged(save_when, changed, running_sha1, startup_sha1) ==
    IF save_when = "always" THEN TRUE
    ELSE save_when \in {"modified", "changed"} /\ changed

\* faulty variant: 'always' saves only when a batch was submitted
SaveDecision_AlwaysIfChanged(save_when, changed, running_sha1, startup_sha1) ==
    IF save_when = "always" THEN changed
    ELSE IF save_when = "modified" THEN running_sha1 # startup_sha1
    ELSE save_when = "changed" /\ changed

\* faulty variant: every save_when but 'always' and 'modified' saves when a
\* batch was submitted
SaveDecision_NeverByChanged(save_when, changed, running_sha1, startup_sha1) ==
    IF save_when = "always" THEN TRUE
    ELSE IF save_when = "modified" THEN running_sha1 # startup_sha1
    ELSE changed

\* lines 422-436: whether save_config is called, given the fingerprints
\* taken when save_when is 'modified'
SaveDecision(save_when, changed, running_sha1, startup_sha1) ==
    IF save_when = "always" THEN TRUE
    ELSE IF save_when = "modified" THEN running_sha1 # startup_sha1
    ELSE save_when = "changed" /\ changed

\* faulty variant: save_config does not test check_mode
save_config_sends_Always(check_mode) == TRUE

\* save_config, line 246: whether 'write memory' is sent
save_config_sends(check_mode) == ~check_mode

\* lines 419-436, with save_config (lines 245-251)
Save ==
    /\ pc = "save"
    /\ LET modified == params.save_when = "modified"
           running_sha1 ==
               IF modified
               THEN NetworkConfigSha1(Show(running)[1],
                                      params.diff_ignore_lines)
               ELSE <<>>
           startup_sha1 ==
               IF modified
               THEN NetworkConfigSha1(Show(startup)[1],
                                      params.diff_ignore_lines)
               ELSE <<>>
           fetched == IF modified
                      THEN log \o <<"show running-config",
                                    "show startup-config">>
                      ELSE log
       IN  /\ running_config' = running_sha1
           /\ startup_config' = startup_sha1
           /\ IF SaveDecision(params.save_when, result.changed,
                              running_sha1, startup_sha1)
              THEN IF save_config_sends(params.check_mode)
                   THEN /\ log' = Append(fetched, "write memory")
                        /\ startup' = running
                        /\ UNCHANGED warnings
                   ELSE /\ warnings' = Append(warnings,
                                [kind |-> "save_skipped", lines |-> <<>>])
                        /\ log' = fetched
                        /\ UNCHANGED startup
              ELSE /\ log' = fetched
                   /\ UNCHANGED <<startup, warnings>>
    /\ pc' = "diff_startup"
    /\ UNCHANGED <<params, running, before_config_list, contents, commands,
                   running_config_list, startup_config_list, difference,
                   after_config_list, result, fn>>

\* lines 438-453
DiffStartup ==
    /\ pc = "diff_startup"
    /\ IF params.diff_against = "startup"
       THEN LET difference_with_startup_config ==
                    get_diff(startup_config_list, running_config_list,
                             get_list_from_params(params.diff_ignore_lines))
            IN  result' =
                    IF Len(difference_with_startup_config) # 0
                    THEN [result EXCEPT
                             !.diff_against_found = "yes",
                             !.changed = TRUE,
                             !.startup_diff = difference_with_startup_config]
                    ELSE [result EXCEPT
                             !.diff_against_found = "no",
                             !.changed = FALSE,
                             !.startup_diff = <<>>]
       ELSE UNCHANGED result
    /\ pc' = "final"
    /\ UNCHANGED <<params, running, startup, before_config_list, contents,
                   commands, running_config_list, startup_config_list,
                   difference, running_config, startup_config,
                   after_config_list, warnings, log, fn>>

\* faulty variant: an earlier changed = true is kept
FinalChanged_KeepsEarlier(after_list, before_list) ==
    \/ result.changed
    \/ Cardinality(Range(after_list) \ Range(before_list)) # 0

\* lines 457-461: the final value of result['changed']
FinalChanged(after_list, before_list) ==
    LET diff == Range(after_list) \ Range(before_list)
    IN  Cardinality(diff) # 0

\* lines 455-463
Final ==
    /\ pc = "final"
    /\ LET after_list == configuration_to_list(Show(running))
       IN  /\ after_config_list' = after_list
           /\ result' = [result EXCEPT
                            !.changed = FinalChanged(after_list,
                                                     before_config_list)]
    /\ log' = Append(log, "show running-config")
    /\ pc' = "done"
    /\ UNCHANGED <<params, running, startup, before_config_list, contents,
                   commands, running_config_list, startup_config_list,
                   difference, running_config, startup_config, warnings, fn>>

Next ==
    \/ RejectArguments
    \/ FetchBefore
    \/ ApplyFileNotFound
    \/ ApplyFile
    \/ SkipFile
    \/ Backup
    \/ ApplyLines
    \/ Reconcile
    \/ Save
    \/ DiffStartup
    \/ Final

Spec == Init /\ [][Next]_vars

-----------------------------------------------------------------------------
(* get_diff on bounded inputs *)

MaxExpected == 2
MaxActual == 1
MaxIgnore == 1

AB == <<"a", "b">>

ExpectedLineChoices == {A, AB, <<BANG, "a">>, <<>>, ExitModule}
ActualLineChoices == {A, AB, <<BANG, "a">>}
IgnoreLineChoices == {A, AB}

InitDiff ==
    /\ params = [check_mode |-> FALSE, src |-> "", file_path |-> "",
                 lines |-> <<>>,
                 parents |-> <<>>, before |-> <<>>, after |-> <<>>,
                 backup |-> FALSE, save_when |-> "never", diff_against |-> "",
                 diff_ignore_lines |-> <<>>, intended_config |-> <<>>]
    /\ running = <<>>
    /\ startup = <<>>
    /\ pc = "get_diff"
    /\ before_config_list = <<>>
    /\ contents = <<>>
    /\ commands = <<>>
    /\ running_config_list = <<>>
    /\ startup_config_list = <<>>
    /\ difference = <<>>
    /\ running_config = <<>>
    /\ startup_config = <<>>
    /\ after_config_list = <<>>
    /\ result = [changed |-> FALSE, has_commands |-> FALSE, has_backup |-> FALSE,
                 success |-> "", failed_diff_lines |-> <<>>,
                 diff_against_found |-> "", startup_diff |-> <<>>]
    /\ warnings = <<>>
    /\ log = <<>>
    /\ fn \in [called            : {FALSE},
               intended_config   : SeqsUpTo(ExpectedLineChoices, MaxExpected),
               candidate_config  : SeqsUpTo(ActualLineChoices, MaxActual),
               diff_ignore_lines : SeqsUpTo(IgnoreLineChoices, MaxIgnore),
               diff              : {<<>>}]

\* a call of get_diff, lines 254-269
CallGetDiff ==
    /\ pc = "get_diff"
    /\ ~fn.called
    /\ fn' = [fn EXCEPT !.called = TRUE,
                        !.diff = get_diff(fn.intended_config,
                                          fn.candidate_config,
                                          fn.diff_ignore_lines)]
    /\ UNCHANGED <<params, running, startup, pc, before_config_list, contents,
                   commands, running_config_list, startup_config_list,
                   difference, running_config, startup_config,
                   after_config_list, result, warnings, log>>

NextDiff == CallGetDiff

SpecDiff == InitDiff /\ [][NextDiff]_vars

-----------------------------------------------------------------------------
(* configuration_to_list on bounded raw texts *)

MaxText == 4

TextChars == {"a", SP, BANG, NL}

\* configuration is the list run_commands returns: one raw text
InitList ==
    /\ params = [check_mode |-> FALSE, src |-> "", file_path |-> "",
                 lines |-> <<>>,
                 parents |-> <<>>, before |-> <<>>, after |-> <<>>,
                 backup |-> FALSE, save_when |-> "never", diff_against |-> "",
                 diff_ignore_lines |-> <<>>, intended_config |-> <<>>]
    /\ running = <<>>
    /\ startup = <<>>
    /\ pc = "configuration_to_list"
    /\ before_config_list = <<>>
    /\ contents = <<>>
    /\ commands = <<>>
    /\ running_config_list = <<>>
    /\ startup_config_list = <<>>
    /\ difference = <<>>
    /\ running_config = <<>>
    /\ startup_config = <<>>
    /\ after_config_list = <<>>
    /\ result = [changed |-> FALSE, has_commands |-> FALSE, has_backup |-> FALSE,
                 success |-> "", failed_diff_lines |-> <<>>,
                 diff_against_found |-> "", startup_diff |-> <<>>]
    /\ warnings = <<>>
    /\ log = <<>>
    /\ fn \in [called                : {FALSE},
               configuration         : {<<text>> :
                                           text \in SeqsUpTo(TextChars, MaxText)},
               sanitized_config_list : {<<>>}]

\* a call of configuration_to_list, lines 272-278
CallConfigurationToList ==
    /\ pc = "configuration_to_list"
    /\ ~fn.called
    /\ fn' = [fn EXCEPT !.called = TRUE,
                        !.sanitized_config_list =
                            configuration_to_list(fn.configuration)]
    /\ UNCHANGED <<params, running, startup, pc, before_config_list, contents,
                   commands, running_config_list, startup_config_list,
                   difference, running_config, startup_config,
                   after_config_list, result, warnings, log>>

NextList == CallConfigurationToList

SpecList == InitList /\ [][NextList]_vars

-----------------------------------------------------------------------------
(* Properties *)

Count(s, x) == Cardinality({i \in DOMAIN s : s[i] = x})

Persisted == "write memory" \in Range(log)

NoMutation == \A i \in DOMAIN log : log[i] \notin Mutating

AfterSave == pc \in {"diff_startup", "final", "done"}

\* C1: in every completed run, the reported changed flag is true exactly when
\* the line set of the running configuration snapshotted after apply differs
\* from the line set snapshotted before apply (symmetric difference non-empty),
\* so also when the run only removed lines.
C1_ChangedIffSymmetricDifference ==
    pc = "done" =>
        (result.changed <=>
            Range(after_config_list) # Range(before_config_list))

\* C2: with save_when = changed outside check mode, the save command is sent
\* exactly when the line set of the running configuration after apply differs
\* from the one before apply, whichever way the candidate was applied.
C2_ChangedPersistIffRunningDiffers ==
    (AfterSave /\ params.save_when = "changed" /\ ~params.check_mode) =>
        (Persisted <=>
            Range(running_config_list) # Range(before_config_list))

\* C3: in check mode no mutating call is ever made to the device, whatever
\* the options.
C3_CheckModeNeverMutates ==
    params.check_mode => NoMutation

\* C4: the running configuration handed to backup() is fetched before any
\* configuration command of the run is sent.
C4_BackupBeforeAnyChange ==
    \A i \in DOMAIN log :
        log[i] = "get_config" => \A j \in 1..(i - 1) : log[j] \notin Mutating

\* C5: when file_path names a file that cannot be opened, the run has failed
\* without any mutating call to the device (the failed run makes no further
\* call: no action is enabled once pc = "failed").
C5_FileNotFoundBeforeMutation ==
    pc = "failed" => (NoMutation /\ log = <<"show running-config">>)

C5_Witness ==
    pc = "failed" /\ params.file_path = "missing" /\ params.lines # <<>>
        /\ params.save_when = "always" /\ ~params.check_mode

AfterApply == pc \in {"fetch_after", "save", "diff_startup", "final", "done"}

\* C6 as stated: for explicit lines (no parents) and any before and after, the
\* command sequence built and reported is before, then the normalised lines,
\* then after.
C6_CommandsAlwaysBeforeLinesAfter ==
    (AfterApply /\ params.lines # <<>> /\ params.parents = <<>>) =>
        commands = params.before \o NormalizeLines(params.lines)
                     \o params.after

\* C6, amended: when the serialised candidate is not empty, the command
\* sequence built and reported is before, then the rows of the candidate (the
\* normalised lines in their given order when there are no parents), then
\* after; when it is empty (every line is a comment), no command sequence is
\* built or reported and nothing is submitted, before and after included.
C6_CommandsAreBeforeLinesAfter ==
    (AfterApply /\ params.lines # <<>>) =>
        IF get_candidate_config(params) # <<>>
        THEN /\ result.has_commands
             /\ commands = params.before
                             \o Split(get_candidate_config(params))
                             \o params.after
             /\ params.parents = <<>> =>
                    commands = params.before \o NormalizeLines(params.lines)
                                 \o params.after
        ELSE /\ ~result.has_commands
             /\ commands = <<>>
             /\ "edit_config" \notin Range(log)

C6_Witness ==
    /\ AfterApply
    /\ result.has_commands
    /\ params.before # <<>>
    /\ params.after # <<>>
    /\ params.parents = <<>>
    /\ Len(params.lines) = 2
    /\ params.lines[1] # params.lines[2]
    /\ Len(commands) = 4

\* what C7 says get_diff reports of an expected line
C7_Reported(L, actual, ignore) ==
    /\ ~StartsWithBang(L)
    /\ \A k \in DOMAIN ignore_list : L # ignore_list[k]
    /\ \A k \in DOMAIN ignore : L # ignore[k]
    /\ \A k \in DOMAIN actual : L # actual[k]

\* C7: get_diff returns the subsequence of expected, in order and with
\* duplicates kept, of the lines that are no comment, equal no built-in ignore
\* literal, equal no caller ignore line and occur nowhere in actual.
C7_GetDiffIsOrderedFilter ==
    fn.called =>
        fn.diff = SelectSeq(fn.intended_config,
                      LAMBDA L : C7_Reported(L, fn.candidate_config,
                                             fn.diff_ignore_lines))

\* a duplicated expected line is reported twice although a caller ignore line
\* is a proper prefix of it
C7_Witness ==
    /\ fn.called
    /\ fn.intended_config = <<AB, AB>>
    /\ fn.diff_ignore_lines = <<A>>
    /\ fn.candidate_config = <<A>>
    /\ fn.diff = <<AB, AB>>

IgnoreSet == Range(ignore_list) \cup Range(params.diff_ignore_lines)

\* C8: no diff produced in a run (drift diff, intended_config diff, startup
\* diff) holds a line of the ignore set.
C8_NoIgnoredLineInAnyDiff ==
    /\ Range(difference) \cap IgnoreSet = {}
    /\ Range(result.failed_diff_lines) \cap IgnoreSet = {}
    /\ Range(result.startup_diff) \cap IgnoreSet = {}

\* an ignored line was expected and is absent from the running configuration,
\* and the drift diff reports another line
C8_Witness ==
    /\ pc = "save"
    /\ params.diff_ignore_lines = <<A>>
    /\ A \in Range(get_list_from_params(params.lines))
    /\ A \notin Range(running_config_list)
    /\ difference # <<>>

\* C9: with save_when = modified outside check mode, the save command is sent
\* exactly when the fingerprints of the freshly fetched running and startup
\* configurations differ.
C9_ModifiedPersistIffFingerprintsDiffer ==
    (AfterSave /\ params.save_when = "modified" /\ ~params.check_mode) =>
        /\ Persisted <=> running_config # startup_config
        /\ running_config =
               NetworkConfigSha1(Show(running)[1], params.diff_ignore_lines)
        /\ ~Persisted =>
               startup_config =
                   NetworkConfigSha1(Show(startup)[1],
                                     params.diff_ignore_lines)

\* commands were applied and changed the running configuration, the
\* fingerprints are equal, and nothing was saved
C9_Witness ==
    /\ pc = "done"
    /\ params.save_when = "modified"
    /\ ~params.check_mode
    /\ "edit_config" \in Range(log)
    /\ after_config_list # before_config_list
    /\ running_config = startup_config
    /\ ~Persisted

\* C10: with save_when = always outside check mode, a run that completes
\* sends the save command exactly once.
C10_AlwaysPersistsOnce ==
    (pc = "done" /\ params.save_when = "always" /\ ~params.check_mode) =>
        Count(log, "write memory") = 1

\* nothing was applied, running and startup already agreed
C10_Witness ==
    /\ pc = "done"
    /\ params.save_when = "always"
    /\ ~params.check_mode
    /\ params.lines = <<>>
    /\ params.file_path = ""
    /\ running_config_list = startup_config_list
    /\ ~result.changed
    /\ Count(log, "write memory") = 1


\* C11: with save_when = never, the default, the save command is never sent.
C11_NeverNeverPersists ==
    params.save_when = "never" => ~Persisted

\* a batch was submitted and changed the running configuration, which now
\* differs from the startup configuration
C11_Witness ==
    /\ pc = "done"
    /\ params.save_when = "never"
    /\ ~params.check_mode
    /\ "edit_config" \in Range(log)
    /\ result.changed
    /\ running # startup
    /\ ~Persisted

SaveSkippedWarnings ==
    Cardinality({i \in DOMAIN warnings : warnings[i].kind = "save_skipped"})

\* C12: in check mode the save command is never sent, and right after the save
\* decision the warning that the save was skipped is recorded exactly when the
\* policy decided to save (always; modified with differing fingerprints;
\* changed with the changed flag true); it is recorded at most once.
C12_CheckModeSkipsSaveWithWarning ==
    (AfterSave /\ params.check_mode) =>
        /\ ~Persisted
        /\ SaveSkippedWarnings <= 1
        /\ pc = "diff_startup" =>
               (SaveSkippedWarnings = 1 <=>
                    \/ params.save_when = "always"
                    \/ /\ params.save_when = "modified"
                       /\ running_config # startup_config
                    \/ /\ params.save_when = "changed"
                       /\ result.changed)

C12_Witness ==
    /\ pc = "done"
    /\ params.check_mode
    /\ params.save_when = "modified"
    /\ running_config # startup_config
    /\ SaveSkippedWarnings = 1
    /\ ~Persisted


AfterReconcile == pc \in {"save", "diff_startup", "final", "done"}

\* the lines of expected (trimmed) that are no comment, no ignored line and
\* absent from actual, in the order of expected
Missing(expected, actual) ==
    SelectSeq(StripAll(expected),
              LAMBDA L : C7_Reported(L, actual,
                                     StripAll(params.diff_ignore_lines)))

\* C13 as stated: with intended_config, success = false and the mismatch list
\* are reported exactly when some intended line is missing from the command
\* sequence submitted to the device, the list being those lines in order.
C13_IntendedAgainstSubmittedCommands ==
    (AfterReconcile /\ params.intended_config # <<>>) =>
        /\ result.success = "False" <=>
               Missing(params.intended_config, commands) # <<>>
        /\ result.failed_diff_lines =
               Missing(params.intended_config, commands)

\* C13, amended: with intended_config, success = false and the mismatch list
\* are reported exactly when some intended line (no comment, not ignored) is
\* missing from the explicit lines as given (trimmed; before, after and the
\* commands of a file are not looked at), the list being those lines in
\* intended order; otherwise success = true.  The run goes on either way.
C13_IntendedAgainstLines ==
    (AfterReconcile /\ params.intended_config # <<>>) =>
        LET missing == Missing(params.intended_config, StripAll(params.lines))
        IN  /\ result.success = IF missing # <<>> THEN "False" ELSE "True"
            /\ result.failed_diff_lines = missing

\* two intended lines are missing, a third is ignored; the run went on to
\* save and to the final changed computation
C13_Witness ==
    /\ pc = "done"
    /\ params.intended_config = <<ExitModule, B, A>>
    /\ params.before = <<B>>
    /\ "edit_config" \in Range(log)
    /\ result.success = "False"
    /\ result.failed_diff_lines = <<B, A>>
    /\ Persisted

DriftWarnings == {i \in DOMAIN warnings : warnings[i].kind = "drift"}

\* C14: the drift warning is emitted exactly when the diff of the explicit
\* lines against the running configuration snapshotted after apply is not
\* empty, it lists exactly those lines, and the run goes on.
C14_DriftWarningIffDiffNonEmpty ==
    AfterReconcile =>
        LET drift == Missing(params.lines, running_config_list)
        IN  /\ running_config_list = configuration_to_list(Show(running))
            /\ difference = drift
            /\ Cardinality(DriftWarnings) = IF drift # <<>> THEN 1 ELSE 0
            /\ \A i \in DriftWarnings : warnings[i].lines = drift

\* the device left the batch without effect: the line is reported, and the
\* run still saved and completed
C14_Witness ==
    /\ pc = "done"
    /\ ~params.check_mode
    /\ "edit_config" \in Range(log)
    /\ difference = <<A>>
    /\ Cardinality(DriftWarnings) = 1
    /\ Persisted


\* C15: with diff_against = startup, the completed run reports changed = true,
\* diff_against_found = yes and the startup lines missing from the running
\* lines as startup_diff when there are such lines, and changed = false,
\* diff_against_found = no and no startup_diff when there are none.
C15_StartupDiffDrivesChanged ==
    (pc = "done" /\ params.diff_against = "startup") =>
        LET d == Missing(startup_config_list, running_config_list)
        IN  IF d # <<>>
            THEN /\ result.changed
                 /\ result.diff_against_found = "yes"
                 /\ result.startup_diff = d
            ELSE /\ ~result.changed
                 /\ result.diff_against_found = "no"
                 /\ result.startup_diff = <<>>

\* C17: the changed value of a completed run is the one recomputed from the
\* before-apply snapshot and the last running snapshot (some line of the last
\* snapshot is not in the before snapshot), whatever was written earlier.
C17_FinalChangedFromSnapshotsOnly ==
    pc = "done" =>
        /\ after_config_list = configuration_to_list(Show(running))
        /\ result.changed <=>
               \E x \in Range(after_config_list) :
                   x \notin Range(before_config_list)

\* a batch was submitted and the startup diff was found, both wrote
\* changed = true, and the run reports changed = false
C17_Witness ==
    /\ pc = "done"
    /\ ~params.check_mode
    /\ "edit_config" \in Range(log)
    /\ result.diff_against_found = "yes"
    /\ ~result.changed

\* C18: a completed run with save_when = changed that sent the save command
\* reports changed = true.
C18_PersistOnChangedReportsChanged ==
    (pc = "done" /\ params.save_when = "changed" /\ Persisted) =>
        result.changed


\* C16: a run given file_path together with lines, or file_path together with
\* parents, is rejected before anything is sent to the device.
C16_FilePathWithLinesRejected ==
    (params.file_path # "" /\ (params.lines # <<>> \/ params.parents # <<>>)) =>
        /\ pc \in {"start", "invalid"}
        /\ log = <<>>


ConfigCommands == {"configure", "command", "exit", "edit_config"}

\* C19: the running configuration is fetched before any configuration command
\* is submitted; the running and startup snapshots used for the drift and
\* startup diffs are fetched after every configuration command; the save
\* command comes after those snapshots and at most once.
C19_FetchApplyFetchPersist ==
    /\ log # <<>> => log[1] = "show running-config"
    /\ pc = "apply_file" =>
           before_config_list = configuration_to_list(Show(running))
    /\ \A i \in DOMAIN log :
           log[i] = "show startup-config" =>
               /\ i > 1
               /\ log[i - 1] = "show running-config"
               /\ \A j \in DOMAIN log :
                      log[j] \in ConfigCommands => j < i - 1
    /\ pc = "save" =>
           /\ running_config_list = configuration_to_list(Show(running))
           /\ startup_config_list = configuration_to_list(Show(startup))
    /\ \A i \in DOMAIN log :
           log[i] = "write memory" =>
               \E j \in 1..(i - 1) : log[j] = "show startup-config"
    /\ Count(log, "write memory") <= 1

\* a run that applied a file and a batch, took a backup and saved
C19_Witness ==
    /\ pc = "done"
    /\ "command" \in Range(log)
    /\ "edit_config" \in Range(log)
    /\ result.has_backup
    /\ Persisted


\* C20: the sequence returned by configuration_to_list is the lines of the raw
\* text, trimmed, in input order, without any line that starts with '!', a
\* comment line preceded by whitespace included.
C20_NoCommentLineIsReturned ==
    (pc = "configuration_to_list" /\ fn.called) =>
        /\ fn.sanitized_config_list =
               SelectSeq(StripAll(Split(fn.configuration[1])),
                         LAMBDA line : ~StartsWithBang(line))
        /\ \A i \in DOMAIN fn.sanitized_config_list :
               /\ fn.sanitized_config_list[i] =
                      Strip(fn.sanitized_config_list[i])
               /\ ~StartsWithBang(fn.sanitized_config_list[i])

====
